---- MODULE Spec2Model ----
(***************************************************************************)
(* Model of email_classifier_template.py: EmailProcessor (classify_email,  *)
(* generate_response), EmailAutomationSystem (process_email and the five   *)
(* _handle_* methods), the mock service functions and run_demonstration.   *)
(*                                                                         *)
(* Text is a sequence of one-character strings, so that str.strip() and    *)
(* str.lower() are computed character by character.  A Python value is a   *)
(* record [type, val]: None, False, or a str holding such a sequence.      *)
(***************************************************************************)
EXTENDS Naturals, Sequences, FiniteSets, TLC

VARIABLES
    emails,          \* the list the driver iterates (sample_emails in run_demonstration)
    i,               \* position of the for loop in emails
    pc,              \* where the current email is: loop, classifying, classified,
                     \* handling, handled, done, end
    email,           \* process_email's argument
    content,         \* outcome of the classification completion call
    classification,  \* process_email's local `classification`
    handler,         \* process_email's local `handler`
    response,        \* process_email's local `response`
    result,          \* the dict process_email returns
    results,         \* run_demonstration's list `results`
    events,          \* every provider call, mock call and results.append, in order
    reply,           \* outcome of the response-generation completion call
    stub,            \* the LLM provider: live, or a deterministic stub fixed call by call
    run,             \* which run over the list this is
    first            \* <<results, events>> of the first run, once a second one starts

vars == <<emails, i, pc, email, content, classification, handler, response,
          result, results, events, reply, stub, run, first>>

-----------------------------------------------------------------------------
(* Bounds of the model *)

\* longest run of whitespace the provider puts before or after its answer
MaxPad == 1
\* longest email list of the repeated run, over the first MaxRerun sample emails
MaxRerun == 2

-----------------------------------------------------------------------------
(* Python values *)

PyNone == [type |-> "NoneType", val |-> <<>>]
PyFalse == [type |-> "bool", val |-> <<"False">>]
Str(s) == [type |-> "str", val |-> s]

\* truth value of `classification` in `if not classification`
Truthy(v) == v.type = "str" /\ v.val # <<>>

-----------------------------------------------------------------------------
(* str.strip() and str.lower() *)

Whitespace == {" ", "\t", "\n"}
UpperCase == <<"A","B","C","D","E","F","G","H","I","J","K","L","M",
               "N","O","P","Q","R","S","T","U","V","W","X","Y","Z">>
LowerCase == <<"a","b","c","d","e","f","g","h","i","j","k","l","m",
               "n","o","p","q","r","s","t","u","v","w","x","y","z">>

LowerChar(c) ==
    IF \E k \in 1..Len(UpperCase) : UpperCase[k] = c
    THEN LowerCase[CHOOSE k \in 1..Len(UpperCase) : UpperCase[k] = c]
    ELSE c

UpperChar(c) ==
    IF \E k \in 1..Len(LowerCase) : LowerCase[k] = c
    THEN UpperCase[CHOOSE k \in 1..Len(LowerCase) : LowerCase[k] = c]
    ELSE c

lower_noop(s) == s
lower(s) == [k \in 1..Len(s) |-> LowerChar(s[k])]

upper(s) == [k \in 1..Len(s) |-> UpperChar(s[k])]

capitalize(s) == [k \in 1..Len(s) |-> IF k = 1 THEN UpperChar(s[k]) ELSE s[k]]

Min(S) == CHOOSE m \in S : \A n \in S : m <= n
Max(S) == CHOOSE m \in S : \A n \in S : n <= m

strip(s) ==
    LET keep == {k \in 1..Len(s) : s[k] \notin Whitespace}
    IN  IF keep = {} THEN <<>> ELSE SubSeq(s, Min(keep), Max(keep))

-----------------------------------------------------------------------------
(* The program's data *)

sample_emails ==
    << [id |-> "001", subject |-> "Broken product received"],
       [id |-> "002", subject |-> "Question about product specifications"],
       [id |-> "003", subject |-> "Amazing customer support"],
       [id |-> "004", subject |-> "Need help with installation"],
       [id |-> "005", subject |-> "Partnership opportunity"] >>

complaint == <<"c","o","m","p","l","a","i","n","t">>
inquiry == <<"i","n","q","u","i","r","y">>
feedback == <<"f","e","e","d","b","a","c","k">>
support_request == <<"s","u","p","p","o","r","t","_","r","e","q","u","e","s","t">>
other == <<"o","t","h","e","r">>

valid_categories == {complaint, inquiry, feedback, support_request, other}

response_handlers ==
    (complaint :> "_handle_complaint") @@ (inquiry :> "_handle_inquiry")
    @@ (feedback :> "_handle_feedback")
    @@ (support_request :> "_handle_support_request")
    @@ (other :> "_handle_other")

-----------------------------------------------------------------------------
(* What the provider can answer *)

\* an outcome of client.chat.completions.create(...).choices[0].message.content
Raised == [raised |-> TRUE, content |-> PyNone]
Returned(v) == [raised |-> FALSE, content |-> v]

spam == <<"s","p","a","m">>
complaints == <<"c","o","m","p","l","a","i","n","t","s">>
support_space_request == <<"s","u","p","p","o","r","t"," ","r","e","q","u","e","s","t">>
none_word == <<"N","o","n","e">>
urgent == <<"u","r","g","e","n","t">>

Words == valid_categories \cup {spam, complaints, support_space_request, none_word, <<>>}
PadChars == {" ", "\n"}
Pads == UNION {[1..n -> PadChars] : n \in 0..MaxPad}
Cased(w) == {w, upper(w), capitalize(w)}

\* every text the classification call is given to return
ClassifierTexts ==
    {l \o c \o t : l \in Pads, t \in Pads, c \in UNION {Cased(w) : w \in Words}}
ClassifierOutcomes ==
    {Raised, Returned(PyNone)} \cup {Returned(Str(t)) : t \in ClassifierTexts}

were_sorry == <<"W","e","'","r","e"," ","s","o","r","r","y",".",".",".">>
ResponderOutcomes ==
    {Raised, Returned(PyNone), Returned(Str(<<>>)), Returned(Str(were_sorry))}

\* the answers of the demonstration run: one per category, one out of the set, failures
DemoClassifierOutcomes ==
    {Raised, Returned(Str(spam)), Returned(Str(complaint)),
     Returned(Str(<<" ">> \o capitalize(inquiry) \o <<"\n">>)),
     Returned(Str(upper(feedback))), Returned(Str(support_request)),
     Returned(Str(other))}
DemoResponderOutcomes == {Raised, Returned(Str(were_sorry))}

-----------------------------------------------------------------------------
(* The LLM provider *)

\* A live provider answers each call freely.  A deterministic stub answers a call
\* as a fixed function of the email and the call kind: the function is fixed call
\* by call, the first answer to a key being the answer to it ever after.
Provides(key, out) ==
    stub.det /\ key \in DOMAIN stub.memo => stub.memo[key] = out

Fix(key, out) ==
    IF stub.det /\ key \notin DOMAIN stub.memo
    THEN [stub EXCEPT !.memo = (key :> out) @@ stub.memo]
    ELSE stub

-----------------------------------------------------------------------------
(* The log *)

LlmCall(name, email_id, arg) ==
    [kind |-> "llm", name |-> name, email_id |-> email_id, arg |-> arg]

Mock(name, email_id, arg) ==
    [kind |-> "mock", name |-> name, email_id |-> email_id, arg |-> arg]

Called(email_id) ==
    [kind |-> "call", name |-> "process_email", email_id |-> email_id, arg |-> PyNone]

Appended(email_id) ==
    [kind |-> "append", name |-> "results.append", email_id |-> email_id, arg |-> PyNone]

send_complaint_response(email_id, resp) == Mock("send_complaint_response", email_id, resp)

send_standard_response(email_id, resp) == Mock("send_standard_response", email_id, resp)

create_urgent_ticket(email_id, category, context) == Mock("create_urgent_ticket", email_id, context)

create_support_ticket(email_id, context) == Mock("create_support_ticket", email_id, context)

log_customer_feedback(email_id, fb) == Mock("log_customer_feedback", email_id, fb)

-----------------------------------------------------------------------------
(* EmailProcessor *)

\* line 97: completion.choices[0].message.content.strip().lower()
category_as_a_text(text) == lower(strip(text))

\* what classify_email returns on an outcome of its completion call; a content
\* that is not a str makes .strip() raise inside the try, which returns None
classify_return(out) ==
    IF out.raised \/ out.content.type # "str" THEN PyNone
    ELSE IF category_as_a_text(out.content.val) \in valid_categories
         THEN Str(category_as_a_text(out.content.val))
         ELSE PyNone

\* what generate_response returns on an outcome of its completion call
generate_return(out) == IF out.raised THEN PyNone ELSE out.content

-----------------------------------------------------------------------------
(* EmailAutomationSystem *)

NoEmail == [id |-> "", subject |-> ""]
NotCalled == [raised |-> FALSE, content |-> [type |-> "unset", val |-> <<>>]]
NoResult ==
    [email_id |-> "", success |-> FALSE, classification |-> PyNone,
     response_sent |-> PyNone]

\* line 158
failure_result(e) ==
    [email_id |-> e.id, success |-> FALSE, classification |-> PyNone,
     response_sent |-> PyFalse]

\* lines 163-168
success_result(e, c, r) ==
    [email_id |-> e.id, success |-> TRUE, classification |-> c, response_sent |-> r]

\* line 159 with another default arm
HandlerFor_default_inquiry(c) ==
    IF c.val \in DOMAIN response_handlers THEN response_handlers[c.val]
    ELSE "_handle_inquiry"

\* line 159: self.response_handlers.get(classification, self._handle_other)
HandlerFor(c) ==
    IF c.val \in DOMAIN response_handlers THEN response_handlers[c.val]
    ELSE "_handle_other"

\* classify_email without the try/except: an error of the completion call leaves
\* process_email and run_demonstration, and the program ends
classify_email_uncaught(Outs) ==
    /\ pc = "classifying"
    /\ \E out \in Outs :
        /\ Provides(<<email.id, "classify_email">>, out)
        /\ stub' = Fix(<<email.id, "classify_email">>, out)
        /\ content' = out
        /\ classification' = classify_return(out)
        /\ pc' = IF out.raised THEN "end" ELSE "classified"
    /\ events' = Append(events, LlmCall("classify_email", email.id, PyNone))
    /\ UNCHANGED <<emails, i, email, handler, response, result, results, reply,
                   run, first>>

\* classify_email calling the provider again after an error
classify_email_retry(Outs) ==
    /\ pc = "classifying"
    /\ \E out \in Outs :
        /\ Provides(<<email.id, "classify_email">>, out)
        /\ stub' = Fix(<<email.id, "classify_email">>, out)
        /\ content' = out
        /\ classification' = classify_return(out)
        /\ pc' = IF out.raised THEN "classifying" ELSE "classified"
    /\ events' = Append(events, LlmCall("classify_email", email.id, PyNone))
    /\ UNCHANGED <<emails, i, email, handler, response, result, results, reply,
                   run, first>>

\* line 156: the call of classify_email, the completion call inside it included
classify_email(Outs) ==
    /\ pc = "classifying"
    /\ \E out \in Outs :
        /\ Provides(<<email.id, "classify_email">>, out)
        /\ stub' = Fix(<<email.id, "classify_email">>, out)
        /\ content' = out
        /\ classification' = classify_return(out)
    /\ events' = Append(events, LlmCall("classify_email", email.id, PyNone))
    /\ pc' = "classified"
    /\ UNCHANGED <<emails, i, email, handler, response, result, results, reply,
                   run, first>>

\* lines 157-159 without the early return: an absent classification goes on to
\* the handler lookup, where dict.get falls back to _handle_other
process_email_check_no_return ==
    /\ pc = "classified"
    /\ handler' = HandlerFor(classification)
    /\ pc' = "handling"
    /\ UNCHANGED <<emails, i, email, content, classification, response, result,
                   results, events, reply, stub, run, first>>

\* lines 157-159: the early return, or the handler lookup
process_email_check ==
    /\ pc = "classified"
    /\ IF ~Truthy(classification)
       THEN /\ result' = failure_result(email)
            /\ pc' = "done"
            /\ UNCHANGED handler
       ELSE /\ handler' = HandlerFor(classification)
            /\ pc' = "handling"
            /\ UNCHANGED result
    /\ UNCHANGED <<emails, i, email, content, classification, response, results,
                   events, reply, stub, run, first>>

\* the call of generate_response inside a handler, its completion call included
Generate(out) ==
    /\ Provides(<<email.id, "generate_response">>, out)
    /\ stub' = Fix(<<email.id, "generate_response">>, out)
    /\ reply' = out
    /\ response' = generate_return(out)

\* lines 170-213: generate_response(email, category), the mock call, return response
_handle_complaint(Outs) ==
    /\ pc = "handling"
    /\ handler = "_handle_complaint"
    /\ \E out \in Outs :
        /\ Generate(out)
        /\ events' = events \o
              << LlmCall("generate_response", email.id, Str(complaint)),
                 send_complaint_response(email.id, generate_return(out)) >>
    /\ pc' = "handled"
    /\ UNCHANGED <<emails, i, email, content, classification, handler, result,
                   results, run, first>>

_handle_inquiry(Outs) ==
    /\ pc = "handling"
    /\ handler = "_handle_inquiry"
    /\ \E out \in Outs :
        /\ Generate(out)
        /\ events' = events \o
              << LlmCall("generate_response", email.id, Str(inquiry)),
                 send_standard_response(email.id, generate_return(out)) >>
    /\ pc' = "handled"
    /\ UNCHANGED <<emails, i, email, content, classification, handler, result,
                   results, run, first>>

\* _handle_feedback with the mock call guarded by `if response:`
_handle_feedback_guarded(Outs) ==
    /\ pc = "handling"
    /\ handler = "_handle_feedback"
    /\ \E out \in Outs :
        /\ Generate(out)
        /\ events' = events \o
              << LlmCall("generate_response", email.id, Str(feedback)) >> \o
              (IF Truthy(generate_return(out))
               THEN << log_customer_feedback(email.id, generate_return(out)) >>
               ELSE << >>)
    /\ pc' = "handled"
    /\ UNCHANGED <<emails, i, email, content, classification, handler, result,
                   results, run, first>>

_handle_feedback(Outs) ==
    /\ pc = "handling"
    /\ handler = "_handle_feedback"
    /\ \E out \in Outs :
        /\ Generate(out)
        /\ events' = events \o
              << LlmCall("generate_response", email.id, Str(feedback)),
                 log_customer_feedback(email.id, generate_return(out)) >>
    /\ pc' = "handled"
    /\ UNCHANGED <<emails, i, email, content, classification, handler, result,
                   results, run, first>>

\* _handle_support_request calling create_urgent_ticket instead
_handle_support_request_urgent(Outs) ==
    /\ pc = "handling"
    /\ handler = "_handle_support_request"
    /\ \E out \in Outs :
        /\ Generate(out)
        /\ events' = events \o
              << LlmCall("generate_response", email.id, Str(support_request)),
                 create_urgent_ticket(email.id, support_request, generate_return(out)) >>
    /\ pc' = "handled"
    /\ UNCHANGED <<emails, i, email, content, classification, handler, result,
                   results, run, first>>

_handle_support_request(Outs) ==
    /\ pc = "handling"
    /\ handler = "_handle_support_request"
    /\ \E out \in Outs :
        /\ Generate(out)
        /\ events' = events \o
              << LlmCall("generate_response", email.id, Str(support_request)),
                 create_support_ticket(email.id, generate_return(out)) >>
    /\ pc' = "handled"
    /\ UNCHANGED <<emails, i, email, content, classification, handler, result,
                   results, run, first>>

_handle_other(Outs) ==
    /\ pc = "handling"
    /\ handler = "_handle_other"
    /\ \E out \in Outs :
        /\ Generate(out)
        /\ events' = events \o
              << LlmCall("generate_response", email.id, Str(other)),
                 send_standard_response(email.id, generate_return(out)) >>
    /\ pc' = "handled"
    /\ UNCHANGED <<emails, i, email, content, classification, handler, result,
                   results, run, first>>

\* lines 161-168: the handler has returned, the result dict is built
process_email_return ==
    /\ pc = "handled"
    /\ result' = success_result(email, classification, response)
    /\ pc' = "done"
    /\ UNCHANGED <<emails, i, email, content, classification, handler, response,
                   results, events, reply, stub, run, first>>

-----------------------------------------------------------------------------
(* run_demonstration *)

\* lines 256-258: the for loop takes the next email and calls process_email
next_email ==
    /\ pc = "loop"
    /\ i <= Len(emails)
    /\ email' = emails[i]
    /\ events' = Append(events, Called(emails[i].id))
    /\ pc' = "classifying"
    /\ UNCHANGED <<emails, i, content, classification, handler, response, result,
                   results, reply, stub, run, first>>

\* line 259: results.append(result); process_email's locals are gone
append_result ==
    /\ pc = "done"
    /\ results' = Append(results, result)
    /\ events' = Append(events, Appended(result.email_id))
    /\ i' = i + 1
    /\ pc' = "loop"
    /\ email' = NoEmail
    /\ content' = NotCalled
    /\ reply' = NotCalled
    /\ classification' = PyNone
    /\ handler' = ""
    /\ response' = PyNone
    /\ result' = NoResult
    /\ UNCHANGED <<emails, stub, run, first>>

\* lines 261-266: the loop is over, the summary is printed
summary ==
    /\ pc = "loop"
    /\ i > Len(emails)
    /\ pc' = "end"
    /\ UNCHANGED <<emails, i, email, content, classification, handler, response,
                   result, results, events, reply, stub, run, first>>

\* lines 250-255 of a second call of run_demonstration: a new processor, a new
\* system and a new empty `results`, all locals of the call
rerun_keeps_results ==
    /\ pc = "end"
    /\ run = 1
    /\ first' = <<results, events>>
    /\ events' = <<>>
    /\ i' = 1
    /\ run' = 2
    /\ pc' = "loop"
    /\ UNCHANGED <<emails, email, content, classification, handler, response,
                   result, results, reply, stub>>

rerun ==
    /\ pc = "end"
    /\ run = 1
    /\ first' = <<results, events>>
    /\ results' = <<>>
    /\ events' = <<>>
    /\ i' = 1
    /\ run' = 2
    /\ pc' = "loop"
    /\ UNCHANGED <<emails, email, content, classification, handler, response,
                   result, reply, stub>>

\* line 156 with an injected processor (line 138) whose classify_email is stubbed
StubClassifications ==
    {PyNone, Str(<<>>)} \cup
    {Str(w) : w \in valid_categories \cup {spam, urgent, upper(complaint)}}

stubbed_classify_email ==
    /\ pc = "classifying"
    /\ \E c \in StubClassifications : classification' = c
    /\ events' = Append(events, LlmCall("classify_email", email.id, PyNone))
    /\ pc' = "classified"
    /\ UNCHANGED <<emails, i, email, content, handler, response, result, results,
                   reply, stub, run, first>>

-----------------------------------------------------------------------------
(* Specifications *)

InitWith(list, det) ==
    /\ emails = list
    /\ i = 1
    /\ pc = "loop"
    /\ email = NoEmail
    /\ content = NotCalled
    /\ reply = NotCalled
    /\ classification = PyNone
    /\ handler = ""
    /\ response = PyNone
    /\ result = NoResult
    /\ results = <<>>
    /\ events = <<>>
    /\ stub = [det |-> det, memo |-> <<>>]
    /\ run = 1
    /\ first = <<>>

\* process_email on any one sample email, the provider answering anything
Init == \E k \in 1..Len(sample_emails) : InitWith(<<sample_emails[k]>>, FALSE)

Next ==
    \/ next_email
    \/ classify_email(ClassifierOutcomes)
    \/ process_email_check
    \/ _handle_complaint(ResponderOutcomes)
    \/ _handle_inquiry(ResponderOutcomes)
    \/ _handle_feedback(ResponderOutcomes)
    \/ _handle_support_request(ResponderOutcomes)
    \/ _handle_other(ResponderOutcomes)
    \/ process_email_return
    \/ append_result
    \/ summary

Spec == Init /\ [][Next]_vars

\* run_demonstration over sample_emails
InitDemo == InitWith(sample_emails, FALSE)

NextDemo ==
    \/ next_email
    \/ classify_email(DemoClassifierOutcomes)
    \/ process_email_check
    \/ _handle_complaint(DemoResponderOutcomes)
    \/ _handle_inquiry(DemoResponderOutcomes)
    \/ _handle_feedback(DemoResponderOutcomes)
    \/ _handle_support_request(DemoResponderOutcomes)
    \/ _handle_other(DemoResponderOutcomes)
    \/ process_email_return
    \/ append_result
    \/ summary

SpecDemo == InitDemo /\ [][NextDemo]_vars

\* the demonstration runs to its end: the program is sequential and never waits
FairDemo == SpecDemo /\ WF_vars(NextDemo)

\* process_email on any one sample email with a stubbed classifier
NextDispatch ==
    \/ next_email
    \/ stubbed_classify_email
    \/ process_email_check
    \/ _handle_complaint(ResponderOutcomes)
    \/ _handle_inquiry(ResponderOutcomes)
    \/ _handle_feedback(ResponderOutcomes)
    \/ _handle_support_request(ResponderOutcomes)
    \/ _handle_other(ResponderOutcomes)
    \/ process_email_return
    \/ append_result
    \/ summary

SpecDispatch == Init /\ [][NextDispatch]_vars

\* two runs over one list, drawn from the first MaxRerun sample emails, against a
\* deterministic stub
RerunLists ==
    UNION {[1..n -> {sample_emails[k] : k \in 1..MaxRerun}] : n \in 1..MaxRerun}

InitRerun == \E list \in RerunLists : InitWith(list, TRUE)

NextRerun ==
    \/ next_email
    \/ classify_email(DemoClassifierOutcomes)
    \/ process_email_check
    \/ _handle_complaint(DemoResponderOutcomes)
    \/ _handle_inquiry(DemoResponderOutcomes)
    \/ _handle_feedback(DemoResponderOutcomes)
    \/ _handle_support_request(DemoResponderOutcomes)
    \/ _handle_other(DemoResponderOutcomes)
    \/ process_email_return
    \/ append_result
    \/ summary
    \/ rerun

SpecRerun == InitRerun /\ [][NextRerun]_vars

-----------------------------------------------------------------------------
(* Vocabulary of the claims *)

\* the texts that are category w once trimmed and lowercased
TextsOf(w) == {l \o c \o t : l \in Pads, t \in Pads, c \in Cased(w)}

\* the classification call neither raised nor returned a text of a valid category
OutOfSet(out) ==
    \/ out.raised
    \/ out.content.type # "str"
    \/ \A w \in valid_categories : out.content.val \notin TextsOf(w)

\* the table of section 4.3
ActionTable ==
    (complaint :> "send_complaint_response") @@ (inquiry :> "send_standard_response")
    @@ (feedback :> "log_customer_feedback")
    @@ (support_request :> "create_support_ticket")
    @@ (other :> "send_standard_response")

IsMock(e) == e.kind = "mock"
Mocks == SelectSeq(events, IsMock)

-----------------------------------------------------------------------------
(* Claims about process_email, checked under Spec *)

\* C1: when the classification call returns a text that is a valid category once
\* trimmed and lowercased, process_email returns success = true, classification =
\* that category, email_id = the email's id.
C1_ValidTextClassified ==
    \A w \in valid_categories :
        (pc = "done" /\ ~content.raised /\ content.content.type = "str"
            /\ content.content.val \in TextsOf(w))
        => /\ result.success = TRUE
           /\ result.classification = Str(w)
           /\ result.email_id = email.id

C1_Witness ==
    /\ pc = "done"
    /\ content = Returned(Str(<<"\n">> \o upper(support_request) \o <<" ">>))
    /\ result.classification = Str(support_request)

\* C2 (as claimed): when the classification call raises or returns out-of-set text,
\* process_email returns exactly {email_id, success: false, classification: absent,
\* response_sent: absent}, response_sent being the same absent value.
C2_FailureAllAbsent ==
    (pc = "done" /\ OutOfSet(content))
    => result = [email_id |-> email.id, success |-> FALSE,
                 classification |-> PyNone, response_sent |-> PyNone]

\* C3: an email classified into a category gets exactly one mock action, the one
\* the table assigns to the category, and no other.
C3_OneActionPerTable ==
    (pc = "done" /\ result.success)
    => /\ Len(Mocks) = 1
       /\ result.classification.val \in valid_categories
       /\ Mocks[1].name = ActionTable[result.classification.val]
       /\ Mocks[1].email_id = email.id

C3_Witness ==
    /\ pc = "done"
    /\ result.classification = Str(support_request)
    /\ Len(Mocks) = 1
    /\ Mocks[1].name = "create_support_ticket"

\* C4: with an absent classification process_email returns at once: no handler,
\* no response-generation call, no mock action.
C4_AbsentShortCircuits ==
    (pc = "done" /\ OutOfSet(content))
    => /\ handler = ""
       /\ reply = NotCalled
       /\ events = << Called(email.id), LlmCall("classify_email", email.id, PyNone) >>

C4_Witness ==
    /\ pc = "done"
    /\ content = Returned(Str(spam))
    /\ ~result.success
    /\ Len(events) = 2

\* C5: a valid category with a response-generation call that raises still gives
\* success = true, that classification, response_sent absent, and the category's
\* mock action exactly once with the absent value as payload.
C5_ResponderFailureStillActs ==
    (pc = "done" /\ ~OutOfSet(content) /\ reply = Raised)
    => /\ result.success = TRUE
       /\ result.classification = classification
       /\ classification.val \in valid_categories
       /\ result.response_sent = PyNone
       /\ Mocks = << Mock(ActionTable[classification.val], email.id, PyNone) >>

C5_Witness ==
    /\ pc = "done"
    /\ reply = Raised
    /\ result.classification = Str(feedback)
    /\ Mocks = << Mock("log_customer_feedback", email.id, PyNone) >>

\* C6 (as claimed): every result has success = true iff classification is present,
\* and response_sent non-absent only when success = true.
C6_ResultInvariant ==
    pc = "done"
    => /\ result.success <=> result.classification # PyNone
       /\ result.response_sent # PyNone => result.success

-----------------------------------------------------------------------------
(* The handler lookup, checked under SpecDispatch *)

\* C7: a classification that is none of complaint, inquiry, feedback,
\* support_request ("other", or an unexpected value) selects the handler of
\* "other": the reply is generated for category "other" and the action is send
\* standard response.
C7_DefaultHandler ==
    (Truthy(classification)
        /\ classification.val \notin {complaint, inquiry, feedback, support_request})
    => /\ pc \in {"handling", "handled", "done"} => handler = "_handle_other"
       /\ pc \in {"handled", "done"} =>
            events = << Called(email.id),
                        LlmCall("classify_email", email.id, PyNone),
                        LlmCall("generate_response", email.id, Str(other)),
                        Mock("send_standard_response", email.id, response) >>

C7_Witness ==
    /\ pc = "done"
    /\ classification = Str(urgent)
    /\ handler = "_handle_other"
    /\ Len(Mocks) = 1
    /\ Mocks[1].name = "send_standard_response"

-----------------------------------------------------------------------------
(* The demonstration driver, checked under SpecDemo and FairDemo *)

IsCall(e) == e.kind = "call"
Calls == SelectSeq(events, IsCall)

\* C8: whatever calls fail, the driver invokes process_email once per sample email
\* in list order and ends with one result per email, the i-th carrying the i-th id;
\* the run never stops before that.
C8_DriverCompletes ==
    /\ pc # "end" => ENABLED NextDemo
    /\ Len(results) <= Len(sample_emails)
    /\ \A k \in 1..Len(results) : results[k].email_id = sample_emails[k].id
    /\ pc = "end" =>
        /\ Len(results) = Len(sample_emails)
        /\ Calls = [k \in 1..Len(sample_emails) |-> Called(sample_emails[k].id)]

C8_Witness ==
    /\ pc = "end"
    /\ Len(results) = Len(sample_emails)
    /\ ~results[1].success
    /\ results[2].success /\ results[2].response_sent = PyNone
    /\ ~results[3].success
    /\ results[4].success /\ results[4].response_sent # PyNone

\* what an event is, as a step of its email's pipeline
Shape(e) == IF e.kind = "llm" THEN e.name ELSE e.kind
IndexOf(id) == CHOOSE k \in 1..Len(sample_emails) : sample_emails[k].id = id
ShapesOf(id) ==
    LET mine(e) == e.email_id = id
        ev == SelectSeq(events, mine)
    IN  [j \in 1..Len(ev) |-> Shape(ev[j])]

\* event f may come right after event e
Follows(e, f) ==
    CASE Shape(e) = "call" -> f = LlmCall("classify_email", e.email_id, PyNone)
      [] Shape(e) = "classify_email" ->
            /\ f.email_id = e.email_id
            /\ Shape(f) \in {"generate_response", "append"}
      [] Shape(e) = "generate_response" ->
            /\ f.email_id = e.email_id
            /\ Shape(f) = "mock"
      [] Shape(e) = "mock" -> f = Appended(e.email_id)
      [] Shape(e) = "append" ->
            /\ IndexOf(e.email_id) < Len(sample_emails)
            /\ f = Called(sample_emails[IndexOf(e.email_id) + 1].id)

\* the log is process_email, one classification call, then either the result or
\* one generation call, the mock action and the result; the next email's first
\* event comes right after the result of the current one
C10_Order ==
    /\ events # <<>> => events[1] = Called(sample_emails[1].id)
    /\ \A a \in 1..(Len(events) - 1) : Follows(events[a], events[a + 1])

\* the only steps are classifying -> handling -> done or classifying -> done, and
\* only the step out of done moves to the next email
C10_Forward ==
    /\ <<pc, pc'>> \in
        { <<"loop", "classifying">>, <<"classifying", "classified">>,
          <<"classified", "handling">>, <<"classified", "done">>,
          <<"handling", "handled">>, <<"handled", "done">>,
          <<"done", "loop">>, <<"loop", "end">> }
    /\ IF pc = "done"
       THEN i' = i + 1 /\ Len(results') = Len(results) + 1
       ELSE i' = i /\ results' = results

\* every email is done: the run is at its end with one result per email
C10_AllDone ==
    /\ pc = "end"
    /\ Len(results) = Len(sample_emails)
    /\ \A k \in 1..Len(sample_emails) : results[k].email_id = sample_emails[k].id

\* C10: each email goes classifying -> handling -> done with no retry and no step
\* back: one classification call, then at most one generation call, then the mock
\* action, then the result, and only then the next email; and every email
\* eventually reaches done.
C10_Pipeline ==
    /\ []C10_Order
    /\ [][C10_Forward]_vars
    /\ <>C10_AllDone

C10_Witness ==
    /\ pc = "end"
    /\ ShapesOf("001") = <<"call", "classify_email", "append">>
    /\ ShapesOf("002") =
         <<"call", "classify_email", "generate_response", "mock", "append">>
    /\ results[2].response_sent = PyNone

-----------------------------------------------------------------------------
(* Two runs against a deterministic stub, checked under SpecRerun *)

\* C9: with a deterministic stub, a second run over the same list gives the same
\* results and the same mock actions in the same order, and within a run the same
\* email gets the same result wherever it stands in the list.
C9_RerunIdentical ==
    /\ Len(results) <= Len(emails)
    /\ (run = 2 /\ pc = "end") => first = <<results, events>>
    /\ \A j \in 1..Len(results) : \A k \in 1..Len(results) :
        emails[j] = emails[k] => results[j] = results[k]

C9_Witness ==
    /\ run = 2
    /\ pc = "end"
    /\ Len(results) = 2
    /\ results[1].success /\ results[1].response_sent # PyNone
    /\ ~results[2].success
    /\ Len(SelectSeq(first[2], IsMock)) = 1

====
